---- MODULE Spec2Model ----
(***************************************************************************)
(* proc-mem-to-prom: per-user process count / RSS / swap gauges.            *)
(*                                                                         *)
(* The model follows src/src/main.rs.  The sampling task (main -> oneshot   *)
(* or run_forever -> procs) is a sequence of steps, one per access to the   *)
(* shared gauge vectors; the HTTP task spawned by main runs beside it.      *)
(* The label prefix (job, hostgroup, instance) is fixed for the life of the *)
(* process, so a child of a gauge vector is identified by its username.     *)
(***************************************************************************)
EXTENDS Integers, Sequences, FiniteSets, TLC

\* ---------------------------------------------------------------- bounds
\* Longest process table handed out by all_processes().
MaxProcs == 2
\* The cycle counter saturates here.
MaxCycles == 2
\* Longest value of the PORT environment variable.
MaxPortLen == 5

\* ------------------------------------------------------ program constants
\* Duration::from_secs(15)
T == 15
\* the "* 1000" applied to vmrss and vmswap
Kilo == 1000
\* Option::None of vmrss / vmswap (a Some(x) is the number x >= 0)
None == -1
\* u16::MAX, the largest port parse::<u16>() accepts
U16Max == 65535
\* the port when neither --port nor a usable PORT is given
DefaultPort == 0

\* ------------------------------------------------------------ input sets
\* uids a process may run under
Uids == 0 .. 5
\* values /proc/<pid>/status may give for VmRSS and VmSwap, in kB
VmValues == {None, 1, 2}
\* every Status the aggregator may be handed
Statuses == [euid : Uids, vmrss : VmValues, vmswap : VmValues]
\* the Statuses drawn by the sampling loop
LoopStatuses ==
    {s \in Statuses : /\ s.euid \in {0, 1, 3, 4}
                      /\ \/ s.vmrss = None /\ s.vmswap = None
                         \/ s.vmrss = 2 /\ s.vmswap = 1}
\* an entry of the process table whose Process or status() is an Err
Unreadable == [euid |-> None, vmrss |-> None, vmswap |-> None]

SeqsUpTo(S, n) == UNION {[1 .. k -> S] : k \in 0 .. n}

\* the tables all_processes() may iterate over in the sampling loop
Tables == SeqsUpTo(LoopStatuses \cup {Unreadable}, MaxProcs)
\* the snapshots the aggregator is checked on by itself
Snapshots == SeqsUpTo(Statuses, MaxProcs)
\* seconds a cycle may have taken when run_forever computes its sleep
ElapsedValues == {0, T - 1, T, T + 1}

\* ---------------------------------------------------------- configuration
\* an Option<String> flag
NoFlag == [some |-> FALSE, val |-> ""]
Flag(v) == [some |-> TRUE, val |-> v]
\* an environment variable: unset, set to bytes that are not Unicode, or set
\* to a string (PORT's is kept as its sequence of characters)
Unset(empty) == [set |-> FALSE, unicode |-> TRUE, val |-> empty]
NotUnicode(empty) == [set |-> TRUE, unicode |-> FALSE, val |-> empty]
SetTo(v) == [set |-> TRUE, unicode |-> TRUE, val |-> v]
\* env::var(..): Ok(value), or Err when unset or not Unicode
env_var(v) == [ok |-> v.set /\ v.unicode, val |-> v.val]

\* characters PORT is made of, and the strings it may hold
PortChars == {"0", "7", "+", "x"}
PortStrings == SeqsUpTo(PortChars, MaxPortLen)
\* what the command line may give
ArgsSet ==
    [oneshot : BOOLEAN, port : {None, 9100},
     group : {NoFlag, Flag("prod")}, instance : {NoFlag, Flag("node1")}]
\* what the environment may give
EnvOf(p, g, i) == ("PORT" :> p) @@ ("GROUP" :> g) @@ ("INSTANCE" :> i)
EnvSet ==
    {EnvOf(p, g, i) :
        p \in {Unset(<<>>), NotUnicode(<<>>)} \cup {SetTo(v) : v \in PortStrings},
        g \in {Unset(""), NotUnicode(""), SetTo("lab")},
        i \in {Unset(""), NotUnicode(""), SetTo("rack7")}}
\* command line and environment of the runs that go on to sample
LoopArgs ==
    [oneshot : BOOLEAN, port : {None}, group : {NoFlag}, instance : {NoFlag}]
LoopEnv == EnvOf(Unset(<<>>), Unset(""), Unset(""))

\* the decimal digits
Digits == <<"0", "1", "2", "3", "4", "5", "6", "7", "8", "9">>
\* char::to_digit(10), None for anything else
DigitOf(c) ==
    IF \E d \in 1 .. 10 : Digits[d] = c
    THEN (CHOOSE d \in 1 .. 10 : Digits[d] = c) - 1
    ELSE None
\* the digit loop of str::parse::<u16>(): checked_mul(10), checked_add(digit)
RECURSIVE parse_digits(_, _)
parse_digits(chars, acc) ==
    IF chars = <<>> THEN acc
    ELSE IF DigitOf(Head(chars)) = None THEN None
    ELSE IF acc * 10 + DigitOf(Head(chars)) > U16Max THEN None
    ELSE parse_digits(Tail(chars), acc * 10 + DigitOf(Head(chars)))
\* x.parse::<u16>(): None stands for Err (empty, a lone sign, a character
\* that is no digit, a value above u16::MAX); one leading "+" is accepted
parse_u16(chars) ==
    IF chars = <<>> THEN None
    ELSE IF Head(chars) = "+"
         THEN IF Tail(chars) = <<>> THEN None ELSE parse_digits(Tail(chars), 0)
         ELSE parse_digits(chars, 0)

\* let port = match args.port { .. } (lines 189-199)
resolve_port(flag, var) ==
    IF flag # None THEN flag
    ELSE IF env_var(var).ok
         THEN IF parse_u16(env_var(var).val) # None
              THEN parse_u16(env_var(var).val)
              ELSE DefaultPort
         ELSE DefaultPort
\* the environment variable ahead of the flag
resolve_label_env_first(flag, var) ==
    IF env_var(var).ok THEN env_var(var).val
    ELSE IF flag.some THEN flag.val
    ELSE "test"
\* let group / let instance = match &args.. { .. } (lines 201-217)
resolve_label(flag, var) ==
    IF flag.some THEN flag.val
    ELSE IF env_var(var).ok THEN env_var(var).val
    ELSE "test"

\* ------------------------------------------------------------- the users
\* UsersCache::get_user_by_uid over a fixed passwd database: two ordinary
\* accounts, an account whose name is literally "unknown", an account
\* whose name is not valid UTF-8, and two uids without an account.
get_user_by_uid(uid) ==
    CASE uid = 0 -> [found |-> TRUE, name |-> "alice", utf8 |-> TRUE]
      [] uid = 1 -> [found |-> TRUE, name |-> "bob", utf8 |-> TRUE]
      [] uid = 2 -> [found |-> TRUE, name |-> "unknown", utf8 |-> TRUE]
      [] uid = 3 -> [found |-> TRUE, name |-> "\\xff", utf8 |-> FALSE]
      [] OTHER -> [found |-> FALSE, name |-> "", utf8 |-> TRUE]

VARIABLES
    mode,                 \* args.oneshot once main has read it
    pc,                   \* position of the main task
    server,               \* position of the spawned HTTP task
    response,             \* body written by the request served in this step
    table,                \* what all_processes() iterated over
    processes,            \* procs(): let processes
    user_procs,           \* procs(): let mut user_procs
    todo,                 \* keys user_procs.into_iter() has not yielded yet
    user,                 \* the username of the loop iteration under way
    prev_usernames,       \* procs(): let mut prev_usernames
    USER_PROCESSES_GAUGE,
    USER_MEMORY_GAUGE,
    USER_SWAP_GAUGE,
    atStart,              \* the three gauges as the previous cycle left them
    snapshotOk,           \* get_all_procs() returned Ok in this cycle
    dropped,              \* table entries filter_map discarded in this cycle
    repeat,               \* this cycle's snapshot equals the previous cycle's
    elapsed,              \* start.elapsed() as read by run_forever
    sleepFor,             \* the Duration handed to sleep()
    cycles,               \* calls of procs() so far (saturating)
    prints,               \* exports printed by oneshot()
    args,                 \* main: Args::parse()
    env,                  \* the environment variables PORT, GROUP, INSTANCE
    port,                 \* main: let port
    group,                \* main: let group
    instance              \* main: let instance

vars == <<mode, pc, server, response, table, processes, user_procs, todo, user,
          prev_usernames, USER_PROCESSES_GAUGE, USER_MEMORY_GAUGE,
          USER_SWAP_GAUGE, atStart, snapshotOk, dropped, repeat, elapsed,
          sleepFor, cycles, prints, args, env, port, group, instance>>

\* ------------------------------------------------------- gauge vectors
\* an IntGaugeVec with no children
EmptyGauge == [u \in {} |-> 0]
\* set() written as an increment of the child's value
set_gauge_inc(gauge, username, v) ==
    (username :> (IF username \in DOMAIN gauge THEN gauge[username] + v ELSE v)) @@ gauge
\* GAUGE.with_label_values(&[.., username]).set(v)
set_gauge(gauge, username, v) == (username :> v) @@ gauge
\* a removal that leaves the child in place
remove_label_values_noop(gauge, username) == gauge
\* GAUGE.remove_label_values(&[.., username]); an Err (no such child) is dropped
remove_label_values(gauge, username) ==
    [u \in DOMAIN gauge \ {username} |-> gauge[u]]
\* the last label value of every metric GAUGE.collect() returns
label_usernames(gauge) == DOMAIN gauge

\* what prometheus::gather() reads
Registry ==
    [processes |-> USER_PROCESSES_GAUGE,
     rss |-> USER_MEMORY_GAUGE,
     swap |-> USER_SWAP_GAUGE]
EmptyRegistry ==
    [processes |-> EmptyGauge, rss |-> EmptyGauge, swap |-> EmptyGauge]
NoResponse == [processes |-> EmptyGauge, rss |-> EmptyGauge, swap |-> EmptyGauge,
               none |-> TRUE]

\* ----------------------------------------------------------- get_all_procs
\* the iteration given up at the first entry that cannot be read
collect_statuses_until_err(t) ==
    IF \A i \in 1 .. Len(t) : t[i] # Unreadable THEN t
    ELSE SubSeq(t, 1, (CHOOSE i \in 1 .. Len(t) :
                          /\ t[i] = Unreadable
                          /\ \A j \in 1 .. i - 1 : t[j] # Unreadable) - 1)
\* filter_map(|v| v.and_then(|p| Ok(p.status()?)).ok()).collect()
collect_statuses(t) == SelectSeq(t, LAMBDA e : e # Unreadable)

\* ---------------------------------------------------------- the aggregator
\* no sentinel: the unresolved owner keeps the (empty) name
username_of_raw(u) == u.name
\* match &user { Some(x) => x.name().to_str().unwrap(), None => "unknown" }
username_of(u) == IF u.found THEN u.name ELSE "unknown"
\* to_str().unwrap() panics on a name that is not UTF-8
unwrap_panics(u) == u.found /\ ~u.utf8
\* match process.vmrss { Some(x) => x as i64, None => 0 }
vm_or_zero(x) == IF x = None THEN 0 ELSE x
\* ProcEntry{count: 0, rss: 0, swap: 0}
NewProcEntry == [count |-> 0, rss |-> 0, swap |-> 0]
\* a record without VmRSS or VmSwap is passed over
add_process_skip(entry, process) ==
    IF process.vmrss = None \/ process.vmswap = None THEN entry
    ELSE [count |-> entry.count + 1,
          rss |-> entry.rss + process.vmrss * Kilo,
          swap |-> entry.swap + process.vmswap * Kilo]
\* entry.count += 1; entry.rss += .. * 1000; entry.swap += .. * 1000
add_process(entry, process) ==
    [count |-> entry.count + 1,
     rss |-> entry.rss + vm_or_zero(process.vmrss) * Kilo,
     swap |-> entry.swap + vm_or_zero(process.vmswap) * Kilo]
\* insert() of a fresh entry instead of entry().or_insert()
add_to_user_procs_insert(acc, process) ==
    (username_of(get_user_by_uid(process.euid)) :> add_process(NewProcEntry, process)) @@ acc
\* user_procs.entry(username).or_insert(..) followed by the three +=
add_to_user_procs(acc, process) ==
    LET username == username_of(get_user_by_uid(process.euid))
        entry == IF username \in DOMAIN acc THEN acc[username] ELSE NewProcEntry
    IN (username :> add_process(entry, process)) @@ acc

\* for process in &processes { .. }
RECURSIVE aggregate(_, _)
aggregate(procs, acc) ==
    IF procs = <<>> THEN acc
    ELSE aggregate(Tail(procs), add_to_user_procs(acc, Head(procs)))

EmptyUserProcs == [u \in {} |-> NewProcEntry]

\* ------------------------------------------------ the aggregator in 64 bits
\* A 64-bit word is four limbs of 16 bits, lowest first: the bits of a u64
\* (vmrss, vmswap) and of an i64 (ProcEntry's rss and swap) alike.
LimbBase == 65536
ZeroWord == <<0, 0, 0, 0>>
\* Option::None of a vmrss / vmswap held as a word
NoWord == <<>>
\* i64::MIN
MinWord == <<0, 0, 0, LimbBase \div 2>>
\* w * k + carry, limb by limb; the fifth limb is what does not fit 64 bits
RECURSIVE mul_limbs(_, _, _)
mul_limbs(w, k, carry) ==
    IF w = <<>> THEN <<carry>>
    ELSE <<(Head(w) * k + carry) % LimbBase>>
         \o mul_limbs(Tail(w), k, (Head(w) * k + carry) \div LimbBase)
\* a + b + carry, limb by limb; the fifth limb is the carry out of 64 bits
RECURSIVE add_limbs(_, _, _)
add_limbs(a, b, carry) ==
    IF a = <<>> THEN <<carry>>
    ELSE <<(Head(a) + Head(b) + carry) % LimbBase>>
         \o add_limbs(Tail(a), Tail(b), (Head(a) + Head(b) + carry) \div LimbBase)
Low64(r) == SubSeq(r, 1, 4)
\* the word of a decimal numeral below 2^64
RECURSIVE WordFrom(_, _)
WordFrom(digits, acc) ==
    IF digits = <<>> THEN acc
    ELSE WordFrom(Tail(digits), Low64(mul_limbs(acc, 10, Head(digits))))
WordOf(digits) == WordFrom(digits, ZeroWord)
\* the sign bit of the word read as an i64
is_negative(w) == w[4] >= LimbBase \div 2
wrapping_neg(w) ==
    Low64(add_limbs([i \in 1 .. 4 |-> LimbBase - 1 - w[i]], ZeroWord, 1))
wrapping_mul(w, k) == Low64(mul_limbs(w, k, 0))
wrapping_add(a, b) == Low64(add_limbs(a, b, 0))
\* i64 * k (k > 0) leaves the range of i64
mul_overflows(w, k) ==
    IF is_negative(w)
    THEN \/ mul_limbs(wrapping_neg(w), k, 0)[5] # 0
         \/ /\ is_negative(Low64(mul_limbs(wrapping_neg(w), k, 0)))
            /\ Low64(mul_limbs(wrapping_neg(w), k, 0)) # MinWord
    ELSE \/ mul_limbs(w, k, 0)[5] # 0
         \/ is_negative(wrapping_mul(w, k))
\* i64 + i64 leaves the range of i64
add_overflows(a, b) ==
    /\ is_negative(a) = is_negative(b)
    /\ is_negative(wrapping_add(a, b)) # is_negative(a)

\* u64::MAX
U64Max == WordOf(<<1, 8, 4, 4, 6, 7, 4, 4, 0, 7, 3, 7, 0, 9, 5, 5, 1, 6, 1, 5>>)
\* i64::MAX / 1000, the largest value whose product with 1000 fits an i64
LastFitting == WordOf(<<9, 2, 2, 3, 3, 7, 2, 0, 3, 6, 8, 5, 4, 7, 7, 5>>)
\* the values of vmrss the 64-bit aggregator is checked on
WideRss ==
    {NoWord, ZeroWord, WordOf(<<2>>), LastFitting,
     wrapping_add(LastFitting, WordOf(<<1>>)), MinWord, U64Max}
WideSwap == {NoWord, WordOf(<<1>>), U64Max}
WideStatuses == [euid : {0, 1}, vmrss : WideRss, vmswap : WideSwap]
WideSnapshots == SeqsUpTo(WideStatuses, MaxProcs)

\* match process.vmrss { Some(x) => x as i64, None => 0 }: the cast keeps
\* the 64 bits of the u64, which are read as two's complement from here on
vm_or_zero_i64(x) == IF x = NoWord THEN ZeroWord ELSE x
\* ProcEntry{count: 0, rss: 0, swap: 0}; overflow records that one of the
\* += or * 1000 on the entry left the range of i64
NewProcEntry_i64 == [count |-> 0, rss |-> ZeroWord, swap |-> ZeroWord, overflow |-> FALSE]
\* entry.count += 1; entry.rss += .. * 1000; entry.swap += .. * 1000
add_process_i64(entry, process) ==
    [count |-> entry.count + 1,
     rss |-> wrapping_add(entry.rss, wrapping_mul(vm_or_zero_i64(process.vmrss), Kilo)),
     swap |-> wrapping_add(entry.swap, wrapping_mul(vm_or_zero_i64(process.vmswap), Kilo)),
     overflow |->
        \/ entry.overflow
        \/ mul_overflows(vm_or_zero_i64(process.vmrss), Kilo)
        \/ add_overflows(entry.rss, wrapping_mul(vm_or_zero_i64(process.vmrss), Kilo))
        \/ mul_overflows(vm_or_zero_i64(process.vmswap), Kilo)
        \/ add_overflows(entry.swap, wrapping_mul(vm_or_zero_i64(process.vmswap), Kilo))]
\* user_procs.entry(username).or_insert(..) followed by the three +=
add_to_user_procs_i64(acc, process) ==
    LET username == username_of(get_user_by_uid(process.euid))
        entry == IF username \in DOMAIN acc THEN acc[username] ELSE NewProcEntry_i64
    IN (username :> add_process_i64(entry, process)) @@ acc
\* for process in &processes { .. }
RECURSIVE aggregate_i64(_, _)
aggregate_i64(procs, acc) ==
    IF procs = <<>> THEN acc
    ELSE aggregate_i64(Tail(procs), add_to_user_procs_i64(acc, Head(procs)))

\* ------------------------------------------------------------------ Init
Init ==
    /\ args \in LoopArgs
    /\ env = LoopEnv
    /\ port = None
    /\ group = ""
    /\ instance = ""
    /\ mode = "unset"
    /\ pc = "config"
    /\ server = "none"
    /\ response = NoResponse
    /\ table = <<>>
    /\ processes = <<>>
    /\ user_procs = EmptyUserProcs
    /\ todo = {}
    /\ user = ""
    /\ prev_usernames = {}
    /\ USER_PROCESSES_GAUGE = EmptyGauge
    /\ USER_MEMORY_GAUGE = EmptyGauge
    /\ USER_SWAP_GAUGE = EmptyGauge
    /\ atStart = EmptyRegistry
    /\ snapshotOk = FALSE
    /\ dropped = 0
    /\ repeat = FALSE
    /\ elapsed = None
    /\ sleepFor = None
    /\ cycles = 0
    /\ prints = 0

\* what the sampling task leaves alone
ServerQuiet == /\ server' = server
               /\ response' = NoResponse
LocalsUnchanged == UNCHANGED <<table, processes, user_procs, todo, user, prev_usernames>>
GaugesUnchanged == UNCHANGED <<USER_PROCESSES_GAUGE, USER_MEMORY_GAUGE, USER_SWAP_GAUGE>>
CycleUnchanged == UNCHANGED <<atStart, snapshotOk, dropped, repeat, cycles>>
ClockUnchanged == UNCHANGED <<elapsed, sleepFor>>
ConfigUnchanged == UNCHANGED <<args, env, port, group, instance>>
\* a panic of the main task, or its return, ends the runtime and the HTTP task
ServerStopped == /\ server' = IF server = "none" THEN "none" ELSE "dead"
                 /\ response' = NoResponse

\* ------------------------------------------------------------------ main
\* let port, let group, let instance (lines 187-217)
main_config ==
    /\ pc = "config"
    /\ port' = resolve_port(args.port, env["PORT"])
    /\ group' = resolve_label(args.group, env["GROUP"])
    /\ instance' = resolve_label(args.instance, env["INSTANCE"])
    /\ pc' = "main"
    /\ ServerQuiet
    /\ LocalsUnchanged /\ GaugesUnchanged /\ CycleUnchanged /\ ClockUnchanged
    /\ UNCHANGED <<args, env, mode, prints>>

\* if args.oneshot { oneshot(&group, &instance); return; }
main_oneshot ==
    /\ ConfigUnchanged
    /\ pc = "main"
    /\ args.oneshot
    /\ mode' = "oneshot"
    /\ pc' = "procs"
    /\ ServerQuiet
    /\ LocalsUnchanged /\ GaugesUnchanged /\ CycleUnchanged /\ ClockUnchanged
    /\ UNCHANGED prints

\* else { tokio::spawn(..); run_forever(&group, &instance).await; }
main_continuous ==
    /\ ConfigUnchanged
    /\ pc = "main"
    /\ ~args.oneshot
    /\ mode' = "continuous"
    /\ server' = "spawned"
    /\ response' = NoResponse
    /\ pc' = "procs"
    /\ LocalsUnchanged /\ GaugesUnchanged /\ CycleUnchanged /\ ClockUnchanged
    /\ UNCHANGED prints

\* ----------------------------------------------------------------- procs
CountCycle == cycles' = IF cycles < MaxCycles THEN cycles + 1 ELSE cycles

\* the Err arm carrying on with an empty snapshot
procs_get_all_procs_Err_empty ==
    /\ ConfigUnchanged
    /\ pc = "procs"
    /\ pc' = "aggregate"
    /\ snapshotOk' = FALSE
    /\ table' = <<>>
    /\ processes' = <<>>
    /\ user_procs' = EmptyUserProcs
    /\ dropped' = 0
    /\ repeat' = FALSE
    /\ CountCycle
    /\ ServerQuiet
    /\ GaugesUnchanged /\ ClockUnchanged
    /\ UNCHANGED <<mode, todo, user, prev_usernames, atStart, prints>>

\* Err(_) => { println!("Cannot get processes!"); return; }
procs_get_all_procs_Err ==
    /\ ConfigUnchanged
    /\ pc = "procs"
    /\ pc' = "returned"
    /\ snapshotOk' = FALSE
    /\ table' = <<>>
    /\ processes' = <<>>
    /\ user_procs' = EmptyUserProcs
    /\ dropped' = 0
    /\ repeat' = FALSE
    /\ CountCycle
    /\ ServerQuiet
    /\ GaugesUnchanged /\ ClockUnchanged
    /\ UNCHANGED <<mode, todo, user, prev_usernames, atStart, prints>>

\* Ok(procs) => procs, with procs the statuses that could be read
procs_get_all_procs_Ok ==
    /\ ConfigUnchanged
    /\ pc = "procs"
    /\ \E t \in Tables :
         /\ table' = t
         /\ processes' = collect_statuses(t)
         /\ dropped' = Len(t) - Len(collect_statuses(t))
         /\ repeat' = (snapshotOk /\ collect_statuses(t) = processes)
    /\ snapshotOk' = TRUE
    /\ user_procs' = EmptyUserProcs
    /\ CountCycle
    /\ pc' = "aggregate"
    /\ ServerQuiet
    /\ GaugesUnchanged /\ ClockUnchanged
    /\ UNCHANGED <<mode, todo, user, prev_usernames, atStart, prints>>

\* the loop over &processes that fills user_procs (lines 83-101)
procs_aggregate ==
    /\ ConfigUnchanged
    /\ pc = "aggregate"
    /\ table' = <<>>
    /\ IF \E i \in 1 .. Len(processes) :
            unwrap_panics(get_user_by_uid(processes[i].euid))
       THEN /\ pc' = "panic_unwrap"
            /\ ServerStopped
            /\ UNCHANGED user_procs
       ELSE /\ pc' = "collect"
            /\ ServerQuiet
            /\ user_procs' = aggregate(processes, EmptyUserProcs)
    /\ GaugesUnchanged /\ CycleUnchanged /\ ClockUnchanged
    /\ UNCHANGED <<mode, processes, todo, user, prev_usernames, prints>>

\* the loop over &processes in 64 bits: an overflow panics where overflow
\* checks are compiled in (the debug profile) and wraps where they are not
\* (the release profile)
procs_aggregate_i64 ==
    /\ ConfigUnchanged
    /\ pc = "aggregate"
    /\ table' = <<>>
    /\ \/ /\ \E u \in DOMAIN aggregate_i64(processes, EmptyUserProcs) :
                 aggregate_i64(processes, EmptyUserProcs)[u].overflow
          /\ pc' = "panic_overflow"
          /\ ServerStopped
          /\ UNCHANGED user_procs
       \/ /\ pc' = "collect"
          /\ ServerQuiet
          /\ user_procs' = aggregate_i64(processes, EmptyUserProcs)
    /\ GaugesUnchanged /\ CycleUnchanged /\ ClockUnchanged
    /\ UNCHANGED <<mode, processes, todo, user, prev_usernames, prints>>

\* where procs() goes once `left` users remain to publish and `stale` to evict
AfterPublish(left, stale) ==
    IF left # {} THEN "publish" ELSE IF stale # {} THEN "evict" ELSE "returned"

\* the three gauges emptied before the first update
procs_collect_reset ==
    /\ ConfigUnchanged
    /\ pc = "collect"
    /\ prev_usernames' = label_usernames(USER_PROCESSES_GAUGE)
    /\ todo' = IF DOMAIN user_procs # {} THEN DOMAIN user_procs
               ELSE label_usernames(USER_PROCESSES_GAUGE)
    /\ pc' = AfterPublish(DOMAIN user_procs, label_usernames(USER_PROCESSES_GAUGE))
    /\ USER_PROCESSES_GAUGE' = EmptyGauge
    /\ USER_MEMORY_GAUGE' = EmptyGauge
    /\ USER_SWAP_GAUGE' = EmptyGauge
    /\ ServerQuiet
    /\ CycleUnchanged /\ ClockUnchanged
    /\ UNCHANGED <<mode, table, processes, user_procs, user, prints>>

\* prev_usernames: the usernames USER_PROCESSES_GAUGE.collect() shows (103-114)
procs_collect ==
    /\ ConfigUnchanged
    /\ pc = "collect"
    /\ prev_usernames' = label_usernames(USER_PROCESSES_GAUGE)
    /\ todo' = IF DOMAIN user_procs # {} THEN DOMAIN user_procs
               ELSE label_usernames(USER_PROCESSES_GAUGE)
    /\ pc' = AfterPublish(DOMAIN user_procs, label_usernames(USER_PROCESSES_GAUGE))
    /\ ServerQuiet
    /\ GaugesUnchanged /\ CycleUnchanged /\ ClockUnchanged
    /\ UNCHANGED <<mode, table, processes, user_procs, user, prints>>

\* USER_PROCESSES_GAUGE.with_label_values(..).set(entry.count), for the next
\* (user, entry) of user_procs.into_iter()
procs_set_processes ==
    /\ ConfigUnchanged
    /\ pc = "publish"
    /\ \E u \in todo :
         /\ user' = u
         /\ USER_PROCESSES_GAUGE' =
                set_gauge(USER_PROCESSES_GAUGE, u, user_procs[u].count)
    /\ pc' = "set_memory"
    /\ ServerQuiet
    /\ CycleUnchanged /\ ClockUnchanged
    /\ UNCHANGED <<mode, table, processes, user_procs, todo, prev_usernames,
                   USER_MEMORY_GAUGE, USER_SWAP_GAUGE, prints>>

\* USER_MEMORY_GAUGE.with_label_values(..).set(entry.rss)
procs_set_memory ==
    /\ ConfigUnchanged
    /\ pc = "set_memory"
    /\ USER_MEMORY_GAUGE' = set_gauge(USER_MEMORY_GAUGE, user, user_procs[user].rss)
    /\ pc' = "set_swap"
    /\ ServerQuiet
    /\ LocalsUnchanged /\ CycleUnchanged /\ ClockUnchanged
    /\ UNCHANGED <<mode, USER_PROCESSES_GAUGE, USER_SWAP_GAUGE, prints>>

\* the publish loop without prev_usernames.remove(username)
procs_set_swap_keep_prev ==
    /\ ConfigUnchanged
    /\ pc = "set_swap"
    /\ USER_SWAP_GAUGE' = set_gauge(USER_SWAP_GAUGE, user, user_procs[user].swap)
    /\ prev_usernames' = prev_usernames
    /\ todo' = IF todo \ {user} # {} THEN todo \ {user} ELSE prev_usernames
    /\ user' = ""
    /\ pc' = AfterPublish(todo \ {user}, prev_usernames)
    /\ ServerQuiet
    /\ CycleUnchanged /\ ClockUnchanged
    /\ UNCHANGED <<mode, table, processes, user_procs,
                   USER_PROCESSES_GAUGE, USER_MEMORY_GAUGE, prints>>

\* USER_SWAP_GAUGE.with_label_values(..).set(entry.swap);
\* prev_usernames.remove(username)
procs_set_swap ==
    /\ ConfigUnchanged
    /\ pc = "set_swap"
    /\ USER_SWAP_GAUGE' = set_gauge(USER_SWAP_GAUGE, user, user_procs[user].swap)
    /\ prev_usernames' = prev_usernames \ {user}
    /\ todo' = IF todo \ {user} # {} THEN todo \ {user} ELSE prev_usernames \ {user}
    /\ user' = ""
    /\ pc' = AfterPublish(todo \ {user}, prev_usernames \ {user})
    /\ ServerQuiet
    /\ CycleUnchanged /\ ClockUnchanged
    /\ UNCHANGED <<mode, table, processes, user_procs,
                   USER_PROCESSES_GAUGE, USER_MEMORY_GAUGE, prints>>

\* USER_PROCESSES_GAUGE.remove_label_values(..), for the next username of
\* prev_usernames
procs_remove_processes ==
    /\ ConfigUnchanged
    /\ pc = "evict"
    /\ \E u \in todo :
         /\ user' = u
         /\ USER_PROCESSES_GAUGE' = remove_label_values(USER_PROCESSES_GAUGE, u)
    /\ pc' = "remove_memory"
    /\ ServerQuiet
    /\ CycleUnchanged /\ ClockUnchanged
    /\ UNCHANGED <<mode, table, processes, user_procs, todo, prev_usernames,
                   USER_MEMORY_GAUGE, USER_SWAP_GAUGE, prints>>

\* a removal whose Err ends the cycle
procs_remove_memory_abort ==
    /\ ConfigUnchanged
    /\ pc = "remove_memory"
    /\ USER_MEMORY_GAUGE' = remove_label_values(USER_MEMORY_GAUGE, user)
    /\ pc' = IF user \in DOMAIN USER_MEMORY_GAUGE THEN "remove_swap" ELSE "returned"
    /\ ServerQuiet
    /\ LocalsUnchanged /\ CycleUnchanged /\ ClockUnchanged
    /\ UNCHANGED <<mode, USER_PROCESSES_GAUGE, USER_SWAP_GAUGE, prints>>

\* USER_MEMORY_GAUGE.remove_label_values(..)
procs_remove_memory ==
    /\ ConfigUnchanged
    /\ pc = "remove_memory"
    /\ USER_MEMORY_GAUGE' = remove_label_values(USER_MEMORY_GAUGE, user)
    /\ pc' = "remove_swap"
    /\ ServerQuiet
    /\ LocalsUnchanged /\ CycleUnchanged /\ ClockUnchanged
    /\ UNCHANGED <<mode, USER_PROCESSES_GAUGE, USER_SWAP_GAUGE, prints>>

\* an eviction that leaves the owner in the swap gauge
procs_remove_swap_forgot ==
    /\ ConfigUnchanged
    /\ pc = "remove_swap"
    /\ USER_SWAP_GAUGE' = USER_SWAP_GAUGE
    /\ todo' = todo \ {user}
    /\ user' = ""
    /\ pc' = IF todo \ {user} # {} THEN "evict" ELSE "returned"
    /\ ServerQuiet
    /\ CycleUnchanged /\ ClockUnchanged
    /\ UNCHANGED <<mode, table, processes, user_procs, prev_usernames,
                   USER_PROCESSES_GAUGE, USER_MEMORY_GAUGE, prints>>

\* USER_SWAP_GAUGE.remove_label_values(..)
procs_remove_swap ==
    /\ ConfigUnchanged
    /\ pc = "remove_swap"
    /\ USER_SWAP_GAUGE' = remove_label_values(USER_SWAP_GAUGE, user)
    /\ todo' = todo \ {user}
    /\ user' = ""
    /\ pc' = IF todo \ {user} # {} THEN "evict" ELSE "returned"
    /\ ServerQuiet
    /\ CycleUnchanged /\ ClockUnchanged
    /\ UNCHANGED <<mode, table, processes, user_procs, prev_usernames,
                   USER_PROCESSES_GAUGE, USER_MEMORY_GAUGE, prints>>

\* --------------------------------------------------------------- oneshot
\* oneshot() going round again after printing
oneshot_print_loop ==
    /\ ConfigUnchanged
    /\ pc = "returned"
    /\ mode = "oneshot"
    /\ prints' = prints + 1
    /\ pc' = "procs"
    /\ ServerQuiet
    /\ LocalsUnchanged /\ GaugesUnchanged /\ CycleUnchanged /\ ClockUnchanged
    /\ UNCHANGED mode

\* encoder.encode(&prometheus::gather(), ..); println!(..); then main returns
oneshot_print ==
    /\ ConfigUnchanged
    /\ pc = "returned"
    /\ mode = "oneshot"
    /\ prints' = prints + 1
    /\ pc' = "done"
    /\ ServerStopped
    /\ LocalsUnchanged /\ GaugesUnchanged /\ CycleUnchanged /\ ClockUnchanged
    /\ UNCHANGED mode

\* ----------------------------------------------------------- run_forever
\* Duration - Duration panics ("overflow when subtracting durations") when
\* the right-hand side is the larger
duration_sub_panics(a, b) == b > a

\* procs() is over: its locals are dropped (the snapshot is remembered for
\* the comparison with the next one) and the cycle's bookkeeping starts anew
ProcsReturned ==
    /\ table' = <<>>
    /\ user_procs' = EmptyUserProcs
    /\ todo' = {}
    /\ user' = ""
    /\ prev_usernames' = {}
    /\ atStart' = Registry
    /\ dropped' = 0
    /\ repeat' = FALSE
    /\ UNCHANGED <<processes, snapshotOk, cycles>>

\* sleep(Duration::from_secs(15) - start.elapsed())
run_forever_sleep ==
    /\ ConfigUnchanged
    /\ pc = "returned"
    /\ mode = "continuous"
    /\ \E e \in ElapsedValues :
         /\ elapsed' = e
         /\ IF duration_sub_panics(T, e)
            THEN /\ pc' = "panic_duration"
                 /\ sleepFor' = None
                 /\ ServerStopped
                 /\ LocalsUnchanged /\ CycleUnchanged
            ELSE /\ pc' = "sleeping"
                 /\ sleepFor' = T - e
                 /\ ServerQuiet
                 /\ ProcsReturned
    /\ GaugesUnchanged
    /\ UNCHANGED <<mode, prints>>

\* the sleep is over: loop { let start = Instant::now(); procs(..); .. }
run_forever_loop ==
    /\ ConfigUnchanged
    /\ pc = "sleeping"
    /\ pc' = "procs"
    /\ elapsed' = None
    /\ sleepFor' = None
    /\ ServerQuiet
    /\ LocalsUnchanged /\ GaugesUnchanged /\ CycleUnchanged
    /\ UNCHANGED <<mode, prints>>

\* --------------------------------------------------------- the HTTP task
SamplerUnchanged ==
    /\ UNCHANGED <<mode, pc, prints>>
    /\ LocalsUnchanged /\ GaugesUnchanged /\ CycleUnchanged /\ ClockUnchanged

\* Server::bind(&addr).serve(..): the listener is bound
server_bind_ok ==
    /\ ConfigUnchanged
    /\ server = "spawned"
    /\ server' = "listening"
    /\ response' = NoResponse
    /\ SamplerUnchanged

\* the bind failure unwinding the main task as well
server_bind_panic_fatal ==
    /\ ConfigUnchanged
    /\ server = "spawned"
    /\ server' = "bind_panicked"
    /\ response' = NoResponse
    /\ pc' = "panic_bind"
    /\ UNCHANGED <<mode, prints>>
    /\ LocalsUnchanged /\ GaugesUnchanged /\ CycleUnchanged /\ ClockUnchanged

\* Server::bind panics when the address cannot be bound: the task ends
server_bind_panic ==
    /\ ConfigUnchanged
    /\ server = "spawned"
    /\ server' = "bind_panicked"
    /\ response' = NoResponse
    /\ SamplerUnchanged

\* a handler that answers with the registry as the last cycle left it
serve_req_snapshot ==
    /\ ConfigUnchanged
    /\ server = "listening"
    /\ response' = [processes |-> atStart.processes,
                    rss |-> atStart.rss,
                    swap |-> atStart.swap,
                    none |-> FALSE]
    /\ UNCHANGED server
    /\ SamplerUnchanged

\* a handler that answers only while the sampler sleeps
serve_req_waits ==
    /\ ConfigUnchanged
    /\ server = "listening"
    /\ pc = "sleeping"
    /\ response' = [processes |-> USER_PROCESSES_GAUGE,
                    rss |-> USER_MEMORY_GAUGE,
                    swap |-> USER_SWAP_GAUGE,
                    none |-> FALSE]
    /\ UNCHANGED server
    /\ SamplerUnchanged

\* encoder.encode(&prometheus::gather(), &mut buffer); Response 200
serve_req ==
    /\ ConfigUnchanged
    /\ server = "listening"
    /\ response' = [processes |-> USER_PROCESSES_GAUGE,
                    rss |-> USER_MEMORY_GAUGE,
                    swap |-> USER_SWAP_GAUGE,
                    none |-> FALSE]
    /\ UNCHANGED server
    /\ SamplerUnchanged

\* the steps of the main task
MainTaskStep ==
    \/ main_config
    \/ main_oneshot
    \/ main_continuous
    \/ procs_get_all_procs_Err
    \/ procs_get_all_procs_Ok
    \/ procs_aggregate
    \/ procs_collect
    \/ procs_set_processes
    \/ procs_set_memory
    \/ procs_set_swap
    \/ procs_remove_processes
    \/ procs_remove_memory
    \/ procs_remove_swap
    \/ oneshot_print
    \/ run_forever_sleep
    \/ run_forever_loop

Next ==
    \/ main_config
    \/ main_oneshot
    \/ main_continuous
    \/ procs_get_all_procs_Err
    \/ procs_get_all_procs_Ok
    \/ procs_aggregate
    \/ procs_collect
    \/ procs_set_processes
    \/ procs_set_memory
    \/ procs_set_swap
    \/ procs_remove_processes
    \/ procs_remove_memory
    \/ procs_remove_swap
    \/ oneshot_print
    \/ run_forever_sleep
    \/ run_forever_loop
    \/ server_bind_ok
    \/ server_bind_panic
    \/ serve_req

Spec == Init /\ [][Next]_vars

\* ------------------------------------------- the aggregator by itself
\* procs() right after get_all_procs() returned Ok(processes), for every
\* snapshot over Statuses; the one step is the loop that fills user_procs.
InitAggregate ==
    /\ args = [oneshot |-> TRUE, port |-> None, group |-> NoFlag, instance |-> NoFlag]
    /\ env = LoopEnv
    /\ port = DefaultPort
    /\ group = "test"
    /\ instance = "test"
    /\ mode = "oneshot"
    /\ pc = "aggregate"
    /\ server = "none"
    /\ response = NoResponse
    /\ processes \in Snapshots
    /\ table = processes
    /\ user_procs = EmptyUserProcs
    /\ todo = {}
    /\ user = ""
    /\ prev_usernames = {}
    /\ USER_PROCESSES_GAUGE = EmptyGauge
    /\ USER_MEMORY_GAUGE = EmptyGauge
    /\ USER_SWAP_GAUGE = EmptyGauge
    /\ atStart = EmptyRegistry
    /\ snapshotOk = TRUE
    /\ dropped = 0
    /\ repeat = FALSE
    /\ elapsed = None
    /\ sleepFor = None
    /\ cycles = 1
    /\ prints = 0

NextAggregate == procs_aggregate

SpecAggregate == InitAggregate /\ [][NextAggregate]_vars

\* -------------------------------------------- the configuration by itself
\* main() up to the choice of the mode, for every command line and
\* environment of ArgsSet and EnvSet.
InitConfig ==
    /\ args \in ArgsSet
    /\ env \in EnvSet
    /\ port = None
    /\ group = ""
    /\ instance = ""
    /\ mode = "unset"
    /\ pc = "config"
    /\ server = "none"
    /\ response = NoResponse
    /\ table = <<>>
    /\ processes = <<>>
    /\ user_procs = EmptyUserProcs
    /\ todo = {}
    /\ user = ""
    /\ prev_usernames = {}
    /\ USER_PROCESSES_GAUGE = EmptyGauge
    /\ USER_MEMORY_GAUGE = EmptyGauge
    /\ USER_SWAP_GAUGE = EmptyGauge
    /\ atStart = EmptyRegistry
    /\ snapshotOk = FALSE
    /\ dropped = 0
    /\ repeat = FALSE
    /\ elapsed = None
    /\ sleepFor = None
    /\ cycles = 0
    /\ prints = 0

NextConfig == main_config

SpecConfig == InitConfig /\ [][NextConfig]_vars

\* ------------------------------------------------ the eviction by itself
\* The eviction loop of procs() (lines 130-146) started on any stale set and
\* any label sets of the three gauges, also ones in which a stale owner is
\* missing from a gauge.
Usernames == {"alice", "bob", "unknown"}
GaugesOver(S) == [S -> {1}]
InitEvict ==
    /\ args = [oneshot |-> FALSE, port |-> None, group |-> NoFlag, instance |-> NoFlag]
    /\ env = LoopEnv
    /\ port = DefaultPort
    /\ group = "test"
    /\ instance = "test"
    /\ mode = "continuous"
    /\ pc = "evict"
    /\ server = "none"
    /\ response = NoResponse
    /\ processes = <<>>
    /\ table = <<>>
    /\ user_procs = EmptyUserProcs
    /\ prev_usernames \in SUBSET Usernames \ {{}}
    /\ todo = prev_usernames
    /\ user = ""
    /\ \E P \in SUBSET Usernames : USER_PROCESSES_GAUGE \in GaugesOver(P)
    /\ \E M \in SUBSET Usernames : USER_MEMORY_GAUGE \in GaugesOver(M)
    /\ \E S \in SUBSET Usernames : USER_SWAP_GAUGE \in GaugesOver(S)
    /\ atStart = Registry
    /\ snapshotOk = TRUE
    /\ dropped = 0
    /\ repeat = FALSE
    /\ elapsed = None
    /\ sleepFor = None
    /\ cycles = 1
    /\ prints = 0

NextEvict ==
    \/ procs_remove_processes
    \/ procs_remove_memory
    \/ procs_remove_swap

SpecEvict == InitEvict /\ [][NextEvict]_vars

\* ------------------------------------------- one cycle in 64 bits
\* procs() right after get_all_procs() returned Ok(processes), over the
\* snapshots of WideSnapshots, up to the last gauge write.
InitWide ==
    /\ args = [oneshot |-> TRUE, port |-> None, group |-> NoFlag, instance |-> NoFlag]
    /\ env = LoopEnv
    /\ port = DefaultPort
    /\ group = "test"
    /\ instance = "test"
    /\ mode = "oneshot"
    /\ pc = "aggregate"
    /\ server = "none"
    /\ response = NoResponse
    /\ processes \in WideSnapshots
    /\ table = processes
    /\ user_procs = EmptyUserProcs
    /\ todo = {}
    /\ user = ""
    /\ prev_usernames = {}
    /\ USER_PROCESSES_GAUGE = EmptyGauge
    /\ USER_MEMORY_GAUGE = EmptyGauge
    /\ USER_SWAP_GAUGE = EmptyGauge
    /\ atStart = EmptyRegistry
    /\ snapshotOk = TRUE
    /\ dropped = 0
    /\ repeat = FALSE
    /\ elapsed = None
    /\ sleepFor = None
    /\ cycles = 1
    /\ prints = 0

NextWide ==
    \/ procs_aggregate_i64
    \/ procs_collect
    \/ procs_set_processes
    \/ procs_set_memory
    \/ procs_set_swap

SpecWide == InitWide /\ [][NextWide]_vars

\* ------------------------------------------------ vocabulary of the claims
\* the owner name a record is attributed to
OwnerOf(p) == username_of(get_user_by_uid(p.euid))
\* positions of the snapshot's records attributed to owner u
RecordsOf(u) == {i \in 1 .. Len(processes) : OwnerOf(processes[i]) = u}
\* positions of the records whose uid has no account
Unresolvable == {i \in 1 .. Len(processes) : ~get_user_by_uid(processes[i].euid).found}
\* positions of the records whose account is literally named "unknown"
NamedUnknown ==
    {i \in 1 .. Len(processes) :
        /\ get_user_by_uid(processes[i].euid).found
        /\ get_user_by_uid(processes[i].euid).name = "unknown"}
\* positions of the records whose account name is not UTF-8
NotUtf8 == {i \in 1 .. Len(processes) : unwrap_panics(get_user_by_uid(processes[i].euid))}

RECURSIVE SumRss(_)
SumRss(S) ==
    IF S = {} THEN 0
    ELSE LET i == CHOOSE j \in S : TRUE IN processes[i].vmrss + SumRss(S \ {i})
RECURSIVE SumSwap(_)
SumSwap(S) ==
    IF S = {} THEN 0
    ELSE LET i == CHOOSE j \in S : TRUE IN processes[i].vmswap + SumSwap(S \ {i})
RECURSIVE SumCount(_, _)
SumCount(S, f) ==
    IF S = {} THEN 0
    ELSE LET u == CHOOSE v \in S : TRUE IN f[u].count + SumCount(S \ {u}, f)

WithRss(S) == {i \in S : processes[i].vmrss # None}
WithSwap(S) == {i \in S : processes[i].vmswap # None}
MaxOf(a, b) == IF a >= b THEN a ELSE b

\* a cycle of procs() has run to its end
CycleOver == pc = "returned"
\* the cycle that just ended met one of the tolerated errors
CycleHadError ==
    \/ ~snapshotOk
    \/ dropped > 0
    \/ Unresolvable # {}

\* procs() is between its aggregation and its return
InCycle ==
    pc \in {"collect", "publish", "set_memory", "set_swap",
            "evict", "remove_memory", "remove_swap", "returned"}
\* procs() is in its eviction loop (lines 130-146)
Evicting == pc \in {"evict", "remove_memory", "remove_swap"}
\* the owners all three gauges published when the cycle began
PublishedBefore ==
    DOMAIN atStart.processes \cap DOMAIN atStart.rss \cap DOMAIN atStart.swap
\* username has this cycle's values in all three gauges
Updated(username) ==
    /\ username \in DOMAIN USER_PROCESSES_GAUGE
    /\ username \in DOMAIN USER_MEMORY_GAUGE
    /\ username \in DOMAIN USER_SWAP_GAUGE
    /\ USER_PROCESSES_GAUGE[username] = user_procs[username].count
    /\ USER_MEMORY_GAUGE[username] = user_procs[username].rss
    /\ USER_SWAP_GAUGE[username] = user_procs[username].swap
\* a request has been answered in this step
Served == ~response.none
\* the entries of a process table whose status could be read, in table order
RECURSIVE ReadableOf(_)
ReadableOf(t) ==
    IF t = <<>> THEN <<>>
    ELSE IF Head(t) = Unreadable THEN ReadableOf(Tail(t))
    ELSE <<Head(t)>> \o ReadableOf(Tail(t))
\* positions of the table's entries that could not be read
UnreadableIn(t) == {i \in 1 .. Len(t) : t[i] = Unreadable}
\* procs() is between the three writes or the three removals of one owner
MidOwner == pc \in {"set_memory", "set_swap", "remove_memory", "remove_swap"}

\* ================================================================ claims

\* C1: after a cycle of procs() whose snapshot retrieval succeeded, each of
\* the three gauges publishes exactly the owners of that cycle's aggregate:
\* every owner published before the cycle and absent from the aggregate is
\* gone from all three gauges, every owner of the aggregate is present.
C1_LabelSetIsAggregateKeySet ==
    (CycleOver /\ snapshotOk) =>
        /\ label_usernames(USER_PROCESSES_GAUGE) = DOMAIN user_procs
        /\ label_usernames(USER_MEMORY_GAUGE) = DOMAIN user_procs
        /\ label_usernames(USER_SWAP_GAUGE) = DOMAIN user_procs
        /\ \A u \in DOMAIN atStart.processes \ DOMAIN user_procs :
              /\ u \notin DOMAIN USER_PROCESSES_GAUGE
              /\ u \notin DOMAIN USER_MEMORY_GAUGE
              /\ u \notin DOMAIN USER_SWAP_GAUGE
\* a cycle that evicted one owner, updated another and created a third
C1_Witness ==
    /\ CycleOver /\ snapshotOk
    /\ DOMAIN atStart.processes \ DOMAIN user_procs # {}
    /\ DOMAIN atStart.processes \cap DOMAIN user_procs # {}
    /\ DOMAIN user_procs \ DOMAIN atStart.processes # {}

\* C2: a cycle whose get_all_procs() returned Err leaves the registry (label
\* sets and values of the three gauges) as the previous cycle left it.
C2_EnumerationFailureKeepsRegistry ==
    (CycleOver /\ ~snapshotOk) => Registry = atStart
\* a failed cycle that followed a cycle which had published owners
C2_Witness ==
    /\ CycleOver /\ ~snapshotOk
    /\ DOMAIN atStart.processes # {}
    /\ cycles >= 2

\* C3: in continuous mode every cycle is followed by a sleep of
\* max(0, T - elapsed): once run_forever has read the elapsed time it is
\* sleeping, for T - elapsed when that is positive and for 0 otherwise.
C3_SleepIsClampedRemainder ==
    (elapsed # None) => (pc = "sleeping" /\ sleepFor = MaxOf(0, T - elapsed))

\* C4: after a successful cycle the three gauges of every owner of the
\* aggregate hold this cycle's values: the number of this cycle's records of
\* the owner, 1000 times the sum of their vmrss, 1000 times the sum of their
\* vmswap, whatever was published for the owner before.
C4_GaugesHoldThisCyclesValues ==
    (CycleOver /\ snapshotOk) =>
        \A u \in DOMAIN user_procs :
            /\ u \in DOMAIN USER_PROCESSES_GAUGE
            /\ u \in DOMAIN USER_MEMORY_GAUGE
            /\ u \in DOMAIN USER_SWAP_GAUGE
            /\ USER_PROCESSES_GAUGE[u] = Cardinality(RecordsOf(u))
            /\ USER_MEMORY_GAUGE[u] = Kilo * SumRss(WithRss(RecordsOf(u)))
            /\ USER_SWAP_GAUGE[u] = Kilo * SumSwap(WithSwap(RecordsOf(u)))
\* an owner whose three gauges all changed value in this cycle
C4_Witness ==
    /\ CycleOver /\ snapshotOk
    /\ \E u \in DOMAIN user_procs \cap DOMAIN atStart.processes :
          /\ atStart.processes[u] # USER_PROCESSES_GAUGE[u]
          /\ atStart.rss[u] # USER_MEMORY_GAUGE[u]
          /\ atStart.swap[u] # USER_SWAP_GAUGE[u]
          /\ atStart.rss[u] > 0

\* C5: the aggregate's keys are exactly the distinct resolved owner names of
\* the snapshot's records, every record belongs to exactly one entry, and the
\* counts of all entries add up to the number of records.
C5_AggregatePartitionsSnapshot ==
    (pc = "collect") =>
        /\ DOMAIN user_procs = {OwnerOf(processes[i]) : i \in 1 .. Len(processes)}
        /\ \A i \in 1 .. Len(processes) :
              Cardinality({u \in DOMAIN user_procs : i \in RecordsOf(u)}) = 1
        /\ SumCount(DOMAIN user_procs, user_procs) = Len(processes)
\* a snapshot of several records, two of them of the same owner
C5_Witness ==
    /\ pc = "collect"
    /\ Len(processes) >= 2
    /\ \E u \in DOMAIN user_procs : user_procs[u].count >= 2

\* C6 (as stated): the unresolvable records of a cycle make up one "unknown"
\* entry whose count is the number of unresolvable records.
C6_UnknownCountsUnresolvable ==
    (pc = "collect" /\ Unresolvable # {}) =>
        /\ "unknown" \in DOMAIN user_procs
        /\ user_procs["unknown"].count = Cardinality(Unresolvable)
\* C6 (amended): an unresolvable record never fails the cycle, and the
\* unresolvable records of a cycle make up one "unknown" entry, which they
\* share with the records of an account that is itself named "unknown": its
\* count is the number of records of both kinds.
C6_UnknownEntry ==
    /\ (pc = "panic_unwrap") => NotUtf8 # {}
    /\ (pc = "collect" /\ Unresolvable # {}) =>
          /\ "unknown" \in DOMAIN user_procs
          /\ RecordsOf("unknown") = Unresolvable \cup NamedUnknown
          /\ user_procs["unknown"].count =
                Cardinality(Unresolvable) + Cardinality(NamedUnknown)
\* two unresolvable records with different uids, aggregated
C6_Witness ==
    /\ pc = "collect"
    /\ \E i, j \in Unresolvable : processes[i].euid # processes[j].euid
    /\ user_procs["unknown"].count = 2

\* C7: a record without vmrss and/or without vmswap adds 0 to that sum of
\* its owner and is counted all the same: an owner's count is the number of
\* its records, its sums are those of the values present.
C7_AbsentMemoryCountsZero ==
    (pc = "collect") =>
        \A u \in DOMAIN user_procs :
            /\ user_procs[u].count = Cardinality(RecordsOf(u))
            /\ user_procs[u].rss = Kilo * SumRss(WithRss(RecordsOf(u)))
            /\ user_procs[u].swap = Kilo * SumSwap(WithSwap(RecordsOf(u)))
\* an owner with a record lacking both values and a record having both
C7_Witness ==
    /\ pc = "collect"
    /\ \E u \in DOMAIN user_procs :
          /\ \E i \in RecordsOf(u) :
                processes[i].vmrss = None /\ processes[i].vmswap = None
          /\ \E i \in RecordsOf(u) :
                processes[i].vmrss # None /\ processes[i].vmswap # None
          /\ user_procs[u].count = 2

\* C8: a cycle run on the same snapshot as the cycle before it leaves the
\* registry (label sets and values) as that cycle left it.
C8_SecondRunChangesNothing ==
    (CycleOver /\ repeat) => Registry = atStart
\* the second of two cycles over the same snapshot of two owners
C8_Witness ==
    /\ CycleOver /\ repeat
    /\ Cardinality(DOMAIN USER_PROCESSES_GAUGE) = 2

\* C9: the sampling loop never ends right after a cycle in which the
\* enumeration failed, a process was unreadable or a uid had no account.
C9_ErrorCycleKeepsLoopRunning ==
    (mode = "continuous" /\ CycleHadError) => pc # "panic_duration"

\* C10: oneshot mode runs one cycle and no second one, prints the export
\* once and only after the cycle, starts no listener, and then has nothing
\* left to do.
C10_OneshotRunsOnce ==
    (mode = "oneshot") =>
        /\ cycles <= 1
        /\ prints <= 1
        /\ server = "none"
        /\ response = NoResponse
        /\ (prints = 1) => (pc = "done")
        /\ (pc = "done") => (cycles = 1 /\ prints = 1 /\ ~ENABLED Next)
\* oneshot mode at its end, with an owner in the export
C10_Witness ==
    /\ mode = "oneshot"
    /\ pc = "done"
    /\ prints = 1
    /\ DOMAIN USER_PROCESSES_GAUGE # {}


\* C11: a failed bind of the listener ends the HTTP task only: with the
\* listener down the main task still has its next step to take, and it ends
\* only for reasons of its own (the Duration subtraction, the name unwrap).
C11_BindFailureLeavesLoopRunning ==
    (server = "bind_panicked") =>
        /\ mode = "continuous"
        /\ pc \in {"panic_duration", "panic_unwrap"} \/ ENABLED MainTaskStep
        /\ (pc = "panic_duration") => (elapsed # None /\ elapsed > T)
        /\ (pc = "panic_unwrap") => (NotUtf8 # {})
\* the second cycle, completed and published, after the bind had failed
C11_Witness ==
    /\ server = "bind_panicked"
    /\ CycleOver /\ snapshotOk
    /\ cycles >= 2
    /\ DOMAIN USER_PROCESSES_GAUGE # {}


\* C12 (as stated): each of port, hostgroup and instance is the flag's value
\* when the flag is given, otherwise the environment variable's value when
\* the variable is set, otherwise the default.
C12_FlagThenEnvThenDefault ==
    (pc = "main") =>
        /\ port = IF args.port # None THEN args.port
                  ELSE IF env["PORT"].set THEN parse_u16(env["PORT"].val)
                  ELSE DefaultPort
        /\ group = IF args.group.some THEN args.group.val
                   ELSE IF env["GROUP"].set THEN env["GROUP"].val
                   ELSE "test"
        /\ instance = IF args.instance.some THEN args.instance.val
                      ELSE IF env["INSTANCE"].set THEN env["INSTANCE"].val
                      ELSE "test"
\* C12 (amended): the flag's value when the flag is given, otherwise the
\* environment variable's value when the variable is set to valid Unicode
\* (and, for PORT, to the decimal form of a number up to 65535), otherwise
\* the default: port 0, hostgroup "test", instance "test".
C12_FlagThenUsableEnvThenDefault ==
    (pc = "main") =>
        /\ port = IF args.port # None THEN args.port
                  ELSE IF /\ env["PORT"].set /\ env["PORT"].unicode
                          /\ parse_u16(env["PORT"].val) # None
                       THEN parse_u16(env["PORT"].val)
                  ELSE DefaultPort
        /\ group = IF args.group.some THEN args.group.val
                   ELSE IF env["GROUP"].set /\ env["GROUP"].unicode THEN env["GROUP"].val
                   ELSE "test"
        /\ instance = IF args.instance.some THEN args.instance.val
                      ELSE IF env["INSTANCE"].set /\ env["INSTANCE"].unicode
                           THEN env["INSTANCE"].val
                      ELSE "test"
\* the three levels at once: the port from PORT, the hostgroup from --group
\* although GROUP is set, the instance from the default
C12_Witness ==
    /\ pc = "main"
    /\ args.port = None /\ env["PORT"] = SetTo(<<"+", "7", "0", "0", "7">>) /\ port = 7007
    /\ args.group = Flag("prod") /\ env["GROUP"] = SetTo("lab") /\ group = "prod"
    /\ args.instance = NoFlag /\ env["INSTANCE"] = Unset("") /\ instance = "test"


\* C13: within one cycle every gauge update is done before the first
\* eviction, and an owner that was published before the cycle and is in the
\* current aggregate is in all three gauges at every state of the cycle; a
\* response served during the cycle shows it in all three gauges.
C13_UpdatesBeforeEvictions ==
    InCycle =>
        /\ \A u \in PublishedBefore \cap DOMAIN user_procs :
              /\ u \in DOMAIN USER_PROCESSES_GAUGE
              /\ u \in DOMAIN USER_MEMORY_GAUGE
              /\ u \in DOMAIN USER_SWAP_GAUGE
              /\ Served => /\ u \in DOMAIN response.processes
                           /\ u \in DOMAIN response.rss
                           /\ u \in DOMAIN response.swap
        /\ Evicting => \A u \in DOMAIN user_procs : Updated(u)
\* a request served during the evictions of a cycle that keeps one owner of
\* the cycle before
C13_Witness ==
    /\ Served
    /\ Evicting
    /\ todo # {}
    /\ PublishedBefore \cap DOMAIN user_procs # {}

\* C14: a request is answered with the registry as it is at that moment,
\* also in the middle of a cycle: nothing holds the answer back to the
\* state before or after the cycle.
C14_ResponseIsRegistryOfTheMoment ==
    Served =>
        /\ response.processes = USER_PROCESSES_GAUGE
        /\ response.rss = USER_MEMORY_GAUGE
        /\ response.swap = USER_SWAP_GAUGE
\* a served response in which an owner new in this cycle is already updated
\* while an owner absent from the aggregate is still published
C14_Witness ==
    /\ Served
    /\ \E u \in DOMAIN user_procs \ DOMAIN atStart.processes :
          /\ u \in DOMAIN response.processes
          /\ u \in DOMAIN response.rss
          /\ u \in DOMAIN response.swap
          /\ response.processes[u] = user_procs[u].count
          /\ response.rss[u] = user_procs[u].rss
          /\ response.swap[u] = user_procs[u].swap
    /\ \E stale \in DOMAIN atStart.processes \ DOMAIN user_procs :
          /\ stale \in DOMAIN response.processes
          /\ stale \in DOMAIN response.rss
          /\ stale \in DOMAIN response.swap

\* C15: a step that serves a request leaves the three gauges and the whole
\* sampler (its position, its locals, its cycle count) as they are, and the
\* handler can run at every position of the sampler while the server
\* listens.
C15_ServeOnlyReads ==
    [][/\ Served' =>
            /\ Registry' = Registry
            /\ UNCHANGED <<pc, mode, cycles, table, processes, user_procs, todo,
                           user, prev_usernames, elapsed, sleepFor, prints>>
       /\ (server = "listening") => ENABLED serve_req]_vars
\* a request served between two gauge writes of one owner
C15_Witness ==
    /\ Served
    /\ pc = "set_memory"
    /\ user \in DOMAIN USER_PROCESSES_GAUGE
    /\ user \notin DOMAIN USER_MEMORY_GAUGE


\* C16: the snapshot get_all_procs returns is Ok and holds exactly the
\* entries of the process table whose status read succeeded, in table order;
\* each failed read drops one record and nothing else; a cycle with dropped
\* records publishes the remaining records as any other cycle does.
C16_ReadFailureDropsOneRecord ==
    /\ (pc = "aggregate") =>
          /\ snapshotOk
          /\ processes = ReadableOf(table)
          /\ dropped = Cardinality(UnreadableIn(table))
          /\ Len(processes) = Len(table) - dropped
    /\ (CycleOver /\ snapshotOk /\ dropped > 0) =>
          /\ DOMAIN USER_PROCESSES_GAUGE = {OwnerOf(processes[i]) : i \in 1 .. Len(processes)}
          /\ DOMAIN USER_MEMORY_GAUGE = DOMAIN USER_PROCESSES_GAUGE
          /\ DOMAIN USER_SWAP_GAUGE = DOMAIN USER_PROCESSES_GAUGE
          /\ \A u \in DOMAIN USER_PROCESSES_GAUGE :
                /\ USER_PROCESSES_GAUGE[u] = Cardinality(RecordsOf(u))
                /\ USER_MEMORY_GAUGE[u] = Kilo * SumRss(WithRss(RecordsOf(u)))
                /\ USER_SWAP_GAUGE[u] = Kilo * SumSwap(WithSwap(RecordsOf(u)))
\* a finished cycle over a table of one unreadable entry followed by one
\* readable entry, whose owner is published
C16_Witness ==
    /\ CycleOver /\ snapshotOk
    /\ dropped = 1
    /\ Len(processes) = 1
    /\ OwnerOf(processes[1]) \in DOMAIN USER_PROCESSES_GAUGE
    /\ USER_PROCESSES_GAUGE[OwnerOf(processes[1])] = 1
    /\ USER_MEMORY_GAUGE[OwnerOf(processes[1])] = 2 * Kilo


\* C17: the eviction loop runs to its end whatever labels the gauges hold:
\* after it no stale owner is left in any of the three gauges, also when a
\* removal found no such label in one gauge, and the labels and values of
\* every other owner are as before; a removal of a missing label changes
\* nothing.
C17_MissingLabelRemovalIsNoOp ==
    /\ Evicting => ENABLED NextEvict
    /\ CycleOver =>
          /\ \A u \in prev_usernames :
                /\ u \notin DOMAIN USER_PROCESSES_GAUGE
                /\ u \notin DOMAIN USER_MEMORY_GAUGE
                /\ u \notin DOMAIN USER_SWAP_GAUGE
          /\ \A u \in Usernames \ prev_usernames :
                /\ u \in DOMAIN USER_PROCESSES_GAUGE <=> u \in DOMAIN atStart.processes
                /\ u \in DOMAIN USER_MEMORY_GAUGE <=> u \in DOMAIN atStart.rss
                /\ u \in DOMAIN USER_SWAP_GAUGE <=> u \in DOMAIN atStart.swap
                /\ u \in DOMAIN USER_PROCESSES_GAUGE =>
                        USER_PROCESSES_GAUGE[u] = atStart.processes[u]
                /\ u \in DOMAIN USER_MEMORY_GAUGE => USER_MEMORY_GAUGE[u] = atStart.rss[u]
                /\ u \in DOMAIN USER_SWAP_GAUGE => USER_SWAP_GAUGE[u] = atStart.swap[u]
\* a finished eviction of two stale owners, one of which was missing from
\* the memory gauge only
C17_Witness ==
    /\ CycleOver
    /\ \E u \in prev_usernames :
          /\ u \in DOMAIN atStart.processes
          /\ u \notin DOMAIN atStart.rss
          /\ u \in DOMAIN atStart.swap
          /\ \E v \in prev_usernames \ {u} :
                /\ v \in DOMAIN atStart.processes
                /\ v \in DOMAIN atStart.rss
                /\ v \in DOMAIN atStart.swap

\* C18: for every snapshot the aggregation stays within i64 (no panic on
\* overflow, no wrapped sum) and every value of the three gauges is
\* non-negative.
C18_PublishedValuesNonNegative ==
    /\ pc # "panic_overflow"
    /\ \A u \in DOMAIN user_procs : ~user_procs[u].overflow
    /\ \A u \in DOMAIN USER_PROCESSES_GAUGE : USER_PROCESSES_GAUGE[u] >= 0
    /\ \A u \in DOMAIN USER_MEMORY_GAUGE : ~is_negative(USER_MEMORY_GAUGE[u])
    /\ \A u \in DOMAIN USER_SWAP_GAUGE : ~is_negative(USER_SWAP_GAUGE[u])


\* C19: whenever procs() is not between the three writes or the three
\* removals of one owner, and so at every cycle boundary after any sequence
\* of successful and failed cycles, the three gauges carry the same owner
\* labels: no owner is in the memory or swap gauge without being in the
\* processes gauge, from which alone the stale set is read.
C19_GaugesShareLabelSets ==
    ~MidOwner =>
        /\ label_usernames(USER_MEMORY_GAUGE) = label_usernames(USER_PROCESSES_GAUGE)
        /\ label_usernames(USER_SWAP_GAUGE) = label_usernames(USER_PROCESSES_GAUGE)
\* the sampler asleep after a failed cycle that followed a cycle which
\* published owners
C19_Witness ==
    /\ pc = "sleeping"
    /\ ~snapshotOk
    /\ cycles >= 2
    /\ label_usernames(USER_PROCESSES_GAUGE) # {}
    /\ label_usernames(USER_SWAP_GAUGE) = label_usernames(USER_PROCESSES_GAUGE)

====
